---- MODULE Spec2Model ----
(***************************************************************************)
(* Model of the websight repository: the UI-TARS action-string parser      *)
(* (communicators/vlm.py, communicators/uitars_finetuned.py) and the two   *)
(* agent loops (websight.py main_loop, old/agent.py WebAgent).             *)
(*                                                                         *)
(* A Python str is a sequence of one-character strings, so that split,     *)
(* startswith, strip, int and str are computed, not assumed.               *)
(***************************************************************************)
EXTENDS Integers, Sequences, FiniteSets, TLC

\* ------------------------------------------------------------------------
\* String literals of the parser (character sequences)
\* ------------------------------------------------------------------------
n_click == <<"c","l","i","c","k">>
n_left_double == <<"l","e","f","t","_","d","o","u","b","l","e">>
n_right_single == <<"r","i","g","h","t","_","s","i","n","g","l","e">>
n_drag == <<"d","r","a","g">>
n_hotkey == <<"h","o","t","k","e","y">>
n_type == <<"t","y","p","e">>
n_scroll == <<"s","c","r","o","l","l">>
n_wait == <<"w","a","i","t">>
n_finished == <<"f","i","n","i","s","h","e","d">>
n_goto_url == <<"g","o","t","o","_","u","r","l">>
m_point == <<"p","o","i","n","t","=","'">>
m_start_box == <<"s","t","a","r","t","_","b","o","x","=","'">>
m_end_box == <<"e","n","d","_","b","o","x","=","'">>
m_key == <<"k","e","y","=","'">>
m_content == <<"c","o","n","t","e","n","t","=","'">>
m_direction == <<"d","i","r","e","c","t","i","o","n","=","'">>
m_url == <<"u","r","l","=","'">>
msg_invalid == <<"I","n","v","a","l","i","d"," ","a","c","t","i","o","n",":"," ">>
msg_index == <<"l","i","s","t"," ","i","n","d","e","x"," ","o","u","t"," ","o","f"," ","r","a","n","g","e">>
msg_int == <<"i","n","v","a","l","i","d"," ","l","i","t","e","r","a","l"," ","f","o","r"," ","i","n","t","(",")"," ","w","i","t","h"," ","b","a","s","e"," ","1","0",":"," ">>
msg_few == <<"n","o","t"," ","e","n","o","u","g","h"," ","v","a","l","u","e","s"," ","t","o"," ","u","n","p","a","c","k"," ","(","e","x","p","e","c","t","e","d"," ","2",","," ","g","o","t"," ","1",")">>
msg_many == <<"t","o","o"," ","m","a","n","y"," ","v","a","l","u","e","s"," ","t","o"," ","u","n","p","a","c","k"," ","(","e","x","p","e","c","t","e","d"," ","2",")">>

\* ------------------------------------------------------------------------
\* Python string primitives
\* ------------------------------------------------------------------------

\* s[i:] for a 1-based index i
Drop(s, i) == SubSeq(s, i, Len(s))

\* p occurs in s at position i
MatchAt(s, p, i) ==
    /\ i >= 1
    /\ i + Len(p) - 1 <= Len(s)
    /\ \A k \in 1..Len(p) : s[i + k - 1] = p[k]

\* str.find: least position of p in s, 0 when absent
find(s, p) ==
    LET hits == {i \in 1..Len(s) : MatchAt(s, p, i)}
    IN  IF hits = {} THEN 0 ELSE CHOOSE i \in hits : \A j \in hits : i <= j

\* the `in` operator on strings
contains(s, p) == find(s, p) # 0

\* str.startswith
startswith(s, p) == MatchAt(s, p, 1)

\* str.split(sep) for a non-empty sep: left to right, non-overlapping
RECURSIVE split(_, _)
split(s, sep) ==
    LET i == find(s, sep)
    IN  IF i = 0 THEN <<s>>
        ELSE <<SubSeq(s, 1, i - 1)>> \o split(Drop(s, i + Len(sep)), sep)

\* str.strip(chars)
RECURSIVE lstrip(_, _)
lstrip(s, chars) ==
    IF s # <<>> /\ s[1] \in chars THEN lstrip(Tail(s), chars) ELSE s

RECURSIVE rstrip(_, _)
rstrip(s, chars) ==
    IF s # <<>> /\ s[Len(s)] \in chars
    THEN rstrip(SubSeq(s, 1, Len(s) - 1), chars) ELSE s

strip(s, chars) == rstrip(lstrip(s, chars), chars)

Digits == <<"0","1","2","3","4","5","6","7","8","9">>

DigitChars == {Digits[i] : i \in 1..10}

DigitVal(c) == (CHOOSE i \in 1..10 : Digits[i] = c) - 1

Whitespace == {" ", "\n", "\t"}

\* the digit part of an int() literal: digits, single underscores between them
IsDigitBody(s) ==
    /\ s # <<>>
    /\ \A i \in 1..Len(s) : s[i] \in DigitChars \cup {"_"}
    /\ s[1] # "_"
    /\ s[Len(s)] # "_"
    /\ \A i \in 1..(Len(s) - 1) : ~(s[i] = "_" /\ s[i + 1] = "_")

RECURSIVE DigitsValue(_, _)
DigitsValue(s, acc) ==
    IF s = <<>> THEN acc
    ELSE IF s[1] = "_" THEN DigitsValue(Tail(s), acc)
    ELSE DigitsValue(Tail(s), acc * 10 + DigitVal(s[1]))

\* int(s) accepts surrounding whitespace, one optional sign, a digit body
IntBody(s) ==
    LET t == strip(s, Whitespace)
    IN  IF t # <<>> /\ t[1] \in {"+", "-"} THEN Tail(t) ELSE t

int_ok(s) == IsDigitBody(IntBody(s))

int(s) ==
    LET t == strip(s, Whitespace)
        v == DigitsValue(IntBody(s), 0)
    IN  IF t # <<>> /\ t[1] = "-" THEN 0 - v ELSE v

\* str(n) of a Python int
RECURSIVE NatStr(_)
NatStr(n) ==
    IF n < 10 THEN <<Digits[n + 1]>>
    ELSE NatStr(n \div 10) \o <<Digits[(n % 10) + 1]>>

str(n) == IF n < 0 THEN <<"-">> \o NatStr(0 - n) ELSE NatStr(n)

\* repr() of a str without quotes or backslashes in it
repr(s) == <<"'">> \o s \o <<"'">>

\* ------------------------------------------------------------------------
\* parse_action (communicators/vlm.py, communicators/uitars_finetuned.py)
\* ------------------------------------------------------------------------

\* the pydantic Action value returned by parse_action
Action(action, args, reasoning) ==
    [ok |-> TRUE, action |-> action, args |-> args, reasoning |-> reasoning,
     exc |-> "", msg |-> <<>>]

\* an exception leaving parse_action
Raise(exc, msg) ==
    [ok |-> FALSE, action |-> "", args |-> <<>>, reasoning |-> <<>>,
     exc |-> exc, msg |-> msg]

\* action.split(marker)[1] is defined
has_field(action, marker) == Len(split(action, marker)) >= 2

\* action.split(marker)[1].split("'")[0]
field(action, marker) == split(split(action, marker)[2], <<"'">>)[1]

\* a part that is not an integer literal is read as 0 instead of raising
unpack2_lenient(coords) ==
    LET parts == split(strip(coords, {"(", ")"}), <<",">>)
        val(i) == IF int_ok(parts[i]) THEN int(parts[i]) ELSE 0
    IN  IF Len(parts) = 1
        THEN [ok |-> FALSE, x |-> 0, y |-> 0, msg |-> msg_few]
        ELSE IF Len(parts) >= 3
             THEN [ok |-> FALSE, x |-> 0, y |-> 0, msg |-> msg_many]
        ELSE [ok |-> TRUE, x |-> val(1), y |-> val(2), msg |-> <<>>]

\* x, y = map(int, coords.strip("()").split(",")): the lazy map is consumed
\* by the unpacking, which asks for a third item after the first two
unpack2(coords) ==
    LET parts == split(strip(coords, {"(", ")"}), <<",">>)
        bad(i) == [ok |-> FALSE, x |-> 0, y |-> 0,
                   msg |-> msg_int \o repr(parts[i])]
    IN  IF ~int_ok(parts[1]) THEN bad(1)
        ELSE IF Len(parts) = 1
             THEN [ok |-> FALSE, x |-> 0, y |-> 0, msg |-> msg_few]
        ELSE IF ~int_ok(parts[2]) THEN bad(2)
        ELSE IF Len(parts) >= 3
             THEN IF ~int_ok(parts[3]) THEN bad(3)
                  ELSE [ok |-> FALSE, x |-> 0, y |-> 0, msg |-> msg_many]
        ELSE [ok |-> TRUE, x |-> int(parts[1]), y |-> int(parts[2]),
              msg |-> <<>>]

IndexError == Raise("IndexError", msg_index)

\* start_box=' is looked for first, point=' only in its absence
parse_click_start_box_first(action, reasoning) ==
    LET marker == IF contains(action, m_start_box) THEN m_start_box
                  ELSE m_point
    IN  IF ~has_field(action, marker) THEN IndexError
        ELSE LET p == unpack2(field(action, marker))
             IN  IF ~p.ok THEN Raise("ValueError", p.msg)
                 ELSE Action("click", [x |-> str(p.x), y |-> str(p.y)],
                             reasoning)

\* the click branch, vlm.py:93-101
parse_click(action, reasoning) ==
    LET marker == IF contains(action, m_point) THEN m_point ELSE m_start_box
    IN  IF ~has_field(action, marker) THEN IndexError
        ELSE LET p == unpack2(field(action, marker))
             IN  IF ~p.ok THEN Raise("ValueError", p.msg)
                 ELSE Action("click", [x |-> str(p.x), y |-> str(p.y)],
                             reasoning)

\* the left_double and right_single branches, vlm.py:102-113
parse_box(name, action, reasoning) ==
    IF ~has_field(action, m_start_box) THEN IndexError
    ELSE LET p == unpack2(field(action, m_start_box))
         IN  IF ~p.ok THEN Raise("ValueError", p.msg)
             ELSE Action(name, [x |-> str(p.x), y |-> str(p.y)], reasoning)

\* the drag branch, vlm.py:114-128
parse_drag(action, reasoning) ==
    IF ~has_field(action, m_start_box) THEN IndexError
    ELSE IF ~has_field(action, m_end_box) THEN IndexError
    ELSE LET s == unpack2(field(action, m_start_box))
             e == unpack2(field(action, m_end_box))
         IN  IF ~s.ok THEN Raise("ValueError", s.msg)
             ELSE IF ~e.ok THEN Raise("ValueError", e.msg)
             ELSE Action("drag",
                         [start_x |-> str(s.x), start_y |-> str(s.y),
                          end_x |-> str(e.x), end_y |-> str(e.y)],
                         reasoning)

\* the scroll branch, vlm.py:135-147
parse_scroll(action, reasoning) ==
    LET marker == IF contains(action, m_point) THEN m_point ELSE m_start_box
    IN  IF ~has_field(action, marker) THEN IndexError
        ELSE LET p == unpack2(field(action, marker))
             IN  IF ~p.ok THEN Raise("ValueError", p.msg)
                 ELSE IF ~has_field(action, m_direction) THEN IndexError
                 ELSE Action("scroll",
                             [x |-> str(p.x), y |-> str(p.y),
                              direction |-> field(action, m_direction)],
                             reasoning)

\* the hotkey, type, finished and goto_url branches: one string field
parse_one(name, marker, action, reasoning) ==
    IF ~has_field(action, marker) THEN IndexError
    ELSE LET v == field(action, marker)
         IN  CASE name = "hotkey"   -> Action(name, [key |-> v], reasoning)
               [] name = "goto_url" -> Action(name, [url |-> v], reasoning)
               [] OTHER             -> Action(name, [content |-> v], reasoning)

parse_action(action, reasoning) ==
    IF startswith(action, n_click) THEN parse_click(action, reasoning)
    ELSE IF startswith(action, n_left_double)
         THEN parse_box("left_double", action, reasoning)
    ELSE IF startswith(action, n_right_single)
         THEN parse_box("right_single", action, reasoning)
    ELSE IF startswith(action, n_drag) THEN parse_drag(action, reasoning)
    ELSE IF startswith(action, n_hotkey)
         THEN parse_one("hotkey", m_key, action, reasoning)
    ELSE IF startswith(action, n_type)
         THEN parse_one("type", m_content, action, reasoning)
    ELSE IF startswith(action, n_scroll) THEN parse_scroll(action, reasoning)
    ELSE IF startswith(action, n_wait) THEN Action("wait", <<>>, reasoning)
    ELSE IF startswith(action, n_finished)
         THEN parse_one("finished", m_content, action, reasoning)
    ELSE IF startswith(action, n_goto_url)
         THEN parse_one("goto_url", m_url, action, reasoning)
    ELSE Raise("ValueError", msg_invalid \o action)

\* ------------------------------------------------------------------------
\* parse_action of communicators/uitars_finetuned.py (lines 175-241),
\* translated branch by branch from that file
\* ------------------------------------------------------------------------

\* a part of action.split(sep), IndexError when it is not there
item(parts, i) ==
    IF Len(parts) >= i THEN [ok |-> TRUE, v |-> parts[i]]
    ELSE [ok |-> FALSE, v |-> <<>>]

\* action.split(marker)[1].split("'")[0]
finetuned_field(action, marker) ==
    LET after == item(split(action, marker), 2)
    IN  IF after.ok THEN item(split(after.v, <<"'">>), 1) ELSE after

\* the coordinates are read from start_box=' whatever the text holds
finetuned_coords_start_box(action) == finetuned_field(action, m_start_box)

\* the if/else of the click and scroll branches,
\* uitars_finetuned.py:178-181 and 221-226
finetuned_coords(action) ==
    IF contains(action, m_point) THEN finetuned_field(action, m_point)
    ELSE finetuned_field(action, m_start_box)

\* x, y = map(int, coords.strip("()").split(",")) and the Action built from
\* the pair; rest holds the other args of the Action
finetuned_xy(name, coords, kx, ky, rest, reasoning) ==
    IF ~coords.ok THEN Raise("IndexError", msg_index)
    ELSE LET p == unpack2(coords.v)
         IN  IF ~p.ok THEN Raise("ValueError", p.msg)
             ELSE Action(name,
                         [k \in {kx, ky} \cup DOMAIN rest |->
                            IF k = kx THEN str(p.x)
                            ELSE IF k = ky THEN str(p.y) ELSE rest[k]],
                         reasoning)

NoArgs == [k \in {} |-> <<>>]

\* the if/elif chain; no action name is a prefix of another, so at most one
\* guard holds
finetuned_parse_action(action, reasoning) ==
    CASE startswith(action, n_click) ->
            finetuned_xy("click", finetuned_coords(action), "x", "y", NoArgs,
                         reasoning)
      [] startswith(action, n_left_double) ->
            finetuned_xy("left_double", finetuned_field(action, m_start_box),
                         "x", "y", NoArgs, reasoning)
      [] startswith(action, n_right_single) ->
            finetuned_xy("right_single", finetuned_field(action, m_start_box),
                         "x", "y", NoArgs, reasoning)
      [] startswith(action, n_drag) ->
            LET start_coords == finetuned_field(action, m_start_box)
                end_coords == finetuned_field(action, m_end_box)
            IN  IF ~start_coords.ok \/ ~end_coords.ok
                THEN Raise("IndexError", msg_index)
                ELSE LET start == finetuned_xy("drag", start_coords,
                                    "start_x", "start_y", NoArgs, reasoning)
                     IN  IF ~start.ok THEN start
                         ELSE finetuned_xy("drag", end_coords, "end_x",
                                           "end_y", start.args, reasoning)
      [] startswith(action, n_hotkey) ->
            LET key == finetuned_field(action, m_key)
            IN  IF ~key.ok THEN Raise("IndexError", msg_index)
                ELSE Action("hotkey", [key |-> key.v], reasoning)
      [] startswith(action, n_type) ->
            LET content == finetuned_field(action, m_content)
            IN  IF ~content.ok THEN Raise("IndexError", msg_index)
                ELSE Action("type", [content |-> content.v], reasoning)
      [] startswith(action, n_scroll) ->
            LET xy == finetuned_xy("scroll", finetuned_coords(action),
                                   "x", "y", NoArgs, reasoning)
                direction == finetuned_field(action, m_direction)
            IN  IF ~xy.ok THEN xy
                ELSE IF ~direction.ok THEN Raise("IndexError", msg_index)
                ELSE Action("scroll",
                            [x |-> xy.args.x, y |-> xy.args.y,
                             direction |-> direction.v], reasoning)
      [] startswith(action, n_wait) -> Action("wait", <<>>, reasoning)
      [] startswith(action, n_finished) ->
            LET content == finetuned_field(action, m_content)
            IN  IF ~content.ok THEN Raise("IndexError", msg_index)
                ELSE Action("finished", [content |-> content.v], reasoning)
      [] startswith(action, n_goto_url) ->
            LET url == finetuned_field(action, m_url)
            IN  IF ~url.ok THEN Raise("IndexError", msg_index)
                ELSE Action("goto_url", [url |-> url.v], reasoning)
      [] OTHER -> Raise("ValueError", msg_invalid \o action)

\* ------------------------------------------------------------------------
\* Action strings in the documented syntax name(key='value', ...)
\* (communicators/prompts.py Action Space)
\* ------------------------------------------------------------------------

Kinds == {"click", "left_double", "right_single", "drag", "hotkey", "type",
          "scroll", "wait", "finished", "goto_url"}

PointKinds == {"click", "left_double", "right_single"}

kind_name(kind) ==
    CASE kind = "click"        -> n_click
      [] kind = "left_double"  -> n_left_double
      [] kind = "right_single" -> n_right_single
      [] kind = "drag"         -> n_drag
      [] kind = "hotkey"       -> n_hotkey
      [] kind = "type"         -> n_type
      [] kind = "scroll"       -> n_scroll
      [] kind = "wait"         -> n_wait
      [] kind = "finished"     -> n_finished
      [] kind = "goto_url"     -> n_goto_url

\* a marker by its tag; "pos" and "foo" are keys no branch of the parser
\* looks for
marker_text(tag) ==
    CASE tag = "point"     -> m_point
      [] tag = "start_box" -> m_start_box
      [] tag = "end_box"   -> m_end_box
      [] tag = "key"       -> m_key
      [] tag = "content"   -> m_content
      [] tag = "direction" -> m_direction
      [] tag = "url"       -> m_url
      [] tag = "pos"       -> <<"p","o","s","=","'">>
      [] tag = "foo"       -> <<"f","o","o","=","'">>

\* content written with the escape \' for a quote (prompts.py:19, 22)
RECURSIVE escape(_)
escape(s) ==
    IF s = <<>> THEN <<>>
    ELSE IF s[1] = "'" THEN <<"\\", "'">> \o escape(Tail(s))
    ELSE <<s[1]>> \o escape(Tail(s))

\* key='value'
kv(tag, value) == marker_text(tag) \o value \o <<"'">>

\* key='(x,y)'
kv_point(tag, x, y) == kv(tag, <<"(">> \o x \o <<",">> \o y \o <<")">>)

call(name, body) == name \o <<"(">> \o body \o <<")">>

sep2(a, b) == a \o <<",", " ">> \o b

\* the action string of (kind, args); m1 and m2 are the marker tags used for
\* the first and the second field
format_action(name, kind, m1, m2, args) ==
    CASE kind \in PointKinds -> call(name, kv_point(m1, args.x, args.y))
      [] kind = "drag" ->
            call(name, sep2(kv_point(m1, args.start_x, args.start_y),
                            kv_point(m2, args.end_x, args.end_y)))
      [] kind = "hotkey"   -> call(name, kv(m1, args.key))
      [] kind = "type"     -> call(name, kv(m1, escape(args.content)))
      [] kind = "finished" -> call(name, kv(m1, escape(args.content)))
      [] kind = "goto_url" -> call(name, kv(m1, args.url))
      [] kind = "scroll" ->
            call(name, sep2(kv_point(m1, args.x, args.y),
                            kv(m2, args.direction)))
      [] kind = "wait"     -> call(name, <<>>)

\* the argument keys each kind requires
required_keys(kind) ==
    CASE kind \in PointKinds -> {"x", "y"}
      [] kind = "drag"     -> {"start_x", "start_y", "end_x", "end_y"}
      [] kind = "hotkey"   -> {"key"}
      [] kind = "type"     -> {"content"}
      [] kind = "finished" -> {"content"}
      [] kind = "scroll"   -> {"x", "y", "direction"}
      [] kind = "wait"     -> {}
      [] kind = "goto_url" -> {"url"}

\* the documented marker tags of each kind: first field, second field
first_markers(kind) ==
    CASE kind \in PointKinds \cup {"scroll"} -> {"point", "start_box"}
      [] kind = "drag"     -> {"start_box"}
      [] kind = "hotkey"   -> {"key"}
      [] kind = "goto_url" -> {"url"}
      [] OTHER             -> {"content"}

second_marker(kind) ==
    CASE kind = "drag"   -> "end_box"
      [] kind = "scroll" -> "direction"
      [] OTHER           -> "none"

\* ------------------------------------------------------------------------
\* Inputs of the parser checks
\* ------------------------------------------------------------------------

CoordInts == {-5, 10, 120, 340}

Coords == {str(n) : n \in CoordInts}

DragCoords == {str(10), str(340)}

Contents == {<<"h","i">>, <<>>, <<"i","t","'","s">>}

Keys == {<<"c","t","r","l"," ","c">>, <<"e","n","t","e","r">>}

Directions == {<<"d","o","w","n">>, <<"u","p">>}

Urls == {<<"a",".","i","o">>}

Reasonings == {<<"o","k">>, <<>>}

\* every valid args mapping of a kind, over the value sets above
valid_args(kind) ==
    CASE kind \in PointKinds -> [x : Coords, y : Coords]
      [] kind = "drag" ->
            [start_x : DragCoords, start_y : DragCoords,
             end_x : DragCoords, end_y : DragCoords]
      [] kind = "hotkey"   -> [key : Keys]
      [] kind = "type"     -> [content : Contents]
      [] kind = "finished" -> [content : Contents]
      [] kind = "goto_url" -> [url : Urls]
      [] kind = "scroll"   -> [x : DragCoords, y : DragCoords,
                               direction : Directions]
      [] kind = "wait"     -> {<<>>}

\* a request: what the string was built from, and the string
Request(cls, kind, head, m1, m2, args) ==
    [cls |-> cls, kind |-> kind, head |-> head, m1 |-> m1, m2 |-> m2,
     args |-> args, text |-> format_action(head, kind, m1, m2, args)]

\* well-formed strings of every kind, in every documented spelling
WellFormed ==
    UNION {{Request("well", k, kind_name(k), m, second_marker(k), a) :
              m \in first_markers(k), a \in valid_args(k)} : k \in Kinds}

\* strings malformed in one of the three ways
NonIntegers == {<<"1",".","5">>, <<"a","b">>, <<>>, <<"1","2","x">>}

\* a required marker is replaced by a key the parser does not look for
MissingMarker ==
    UNION {{Request("missing", k, kind_name(k), "pos", second_marker(k), a) :
              a \in valid_args(k)} : k \in Kinds \ {"wait"}}
    \cup UNION {{Request("missing", k, kind_name(k), "start_box", "pos", a) :
              a \in valid_args(k)} : k \in {"drag", "scroll"}}

\* one coordinate is not an integer literal
NonInteger ==
    UNION {{Request("nonint", k, kind_name(k), m, second_marker(k),
                    [x |-> c, y |-> str(10)]) :
              m \in first_markers(k), c \in NonIntegers} : k \in PointKinds}
    \cup {Request("nonint", "scroll", n_scroll, "point", "direction",
                  [x |-> str(10), y |-> c, direction |-> <<"u","p">>]) :
              c \in NonIntegers}
    \cup {Request("nonint", "drag", n_drag, "start_box", "end_box",
                  [start_x |-> str(10), start_y |-> str(10),
                   end_x |-> c, end_y |-> str(10)]) : c \in NonIntegers}

\* leading tokens that are not recognized kinds
UnknownHeads ==
    {<<"u","n","k","n","o","w","n","_","c","m","d">>,
     <<"p","r","e","s","s">>,
     <<"c","l","i","c","k","e","d">>,
     <<"t","y","p","e","w","r","i","t","e","r">>,
     <<"w","a","i","t","i","n","g">>}

UnknownToken ==
    {Request("unknown", "hotkey", h, "foo", "none", [key |-> <<"b","a","r">>]) :
        h \in UnknownHeads}
    \cup {Request("unknown", "click", h, "point", "none",
                  [x |-> str(120), y |-> str(340)]) : h \in UnknownHeads}
    \cup {Request("unknown", "type", h, "content", "none",
                  [content |-> <<"h","i">>]) : h \in UnknownHeads}
    \cup {Request("unknown", "wait", h, "none", "none", <<>>) :
        h \in UnknownHeads}

Malformed == MissingMarker \cup NonInteger \cup UnknownToken

\* what a start_box=' marker holds next to a point=' marker: other
\* coordinates, or something that is not a pair of integers
BoxValues ==
    {<<"(","7",",","8",")">>, <<"(","a",",","b",")">>, <<"7">>, <<>>}

\* click and scroll strings that hold both markers, in either order; args
\* are the coordinates written after point='
BothRequest(kind, first, x, y, box) ==
    LET point == kv_point("point", x, y)
        start_box == kv("start_box", box)
        pair == IF first = "point" THEN sep2(point, start_box)
                ELSE sep2(start_box, point)
    IN  [cls |-> "both", kind |-> kind, head |-> kind_name(kind),
         m1 |-> first,
         m2 |-> IF first = "point" THEN "start_box" ELSE "point",
         args |-> [x |-> x, y |-> y, box |-> box],
         text |-> IF kind = "click" THEN call(n_click, pair)
                  ELSE call(n_scroll,
                            sep2(pair, kv("direction", <<"u","p">>)))]

BothMarkers ==
    {BothRequest(k, first, x, y, box) :
        k \in {"click", "scroll"}, first \in {"point", "start_box"},
        x \in DragCoords, y \in DragCoords, box \in BoxValues}

Requests == WellFormed \cup Malformed \cup BothMarkers

\* ------------------------------------------------------------------------
\* State
\* ------------------------------------------------------------------------

VARIABLES
    \* one call of a function (parse_action, vlm_call,
    \* execute_browser_action)
    req,                  \* the request: what the argument was built from
    reasoning,            \* the reasoning argument of parse_action
    out,                  \* what the function returned or raised
    pstate,               \* "off", "ready" or "returned"
    \* one process running sessions one after the other
    entry,                \* "main_loop" (websight.py) or "WebAgent"
    pc,                   \* position in the entry point
    session,              \* number of the current call of the entry point
    result,               \* what the entry point returned to its caller
    raised,               \* an exception left the entry point
    exit_code,            \* exit status of the websight.py process, -1 while
                          \* it runs
    \* websight.py module globals and main_loop locals
    plan,
    current_state,
    actions_done,
    actions_this_session,
    next_task_directive,
    action_to_execute,
    summary,
    \* old/agent.py WebAgent
    task_plan,            \* number of steps of the TaskPlan, -1 before planning
    step_num,
    current_task,
    decision,
    \* history of the current session (observation only)
    cycles,               \* iterations begun
    observed,             \* screenshots asked of the browser in the loop
    acted,                \* calls of execute_browser_action / _execute_action
    dispatched,           \* browser primitives invoked for a decided action
    plan_failed,          \* the planning call of this session failed
    oracle_failed,        \* a decision call of this session failed
    terminal_iter,        \* iteration whose decision was the terminal one
    terminal_dispatch,    \* primitives invoked since the terminal decision
    failed_iter,          \* iteration whose action failed
    decided,              \* decision calls made
    shot_failed,          \* the screenshot of the iteration in progress
                          \* (or the one taken before the loop) raised
    marker,               \* the decision text of the iteration in progress
                          \* holds "finished" in some letter case
    \* eval/showdown/clicks.py evaluate_websight_on_showdown, run after run
    \* on one results directory
    results_file,         \* ids of the entries of results.npy, <<>> while
                          \* the file does not exist
    results,              \* the in-memory list of the run (ids)
    existing_results,     \* keys of the dict load_existing_results returned
    remaining_examples,   \* examples the loop of the run has yet to reach
    sent,                 \* ids websight_call was called with in this run
    loaded,               \* np.load of this run returned (or no file)
    last_example,         \* the example the loop handled last, and how
    spc,                  \* "idle" between runs, "loop" within one
    runs,                 \* runs started
    \* evaluate_websight.py WebsightEvaluator
    ev_results,           \* self.results
    stats,                \* what calculate_statistics returned last
    tasks_run             \* tasks of the run_evaluation call in progress

shvars == <<results_file, results, existing_results, remaining_examples,
            sent, loaded, last_example, spc, runs>>

evvars == <<ev_results, stats, tasks_run>>

\* the agent sessions leave the single calls and the evaluators alone
pvars == <<req, reasoning, out, pstate, shvars, evvars>>

wsvars == <<plan, current_state, actions_done, actions_this_session,
            next_task_directive, action_to_execute, summary>>

wavars == <<task_plan, step_num, current_task, decision>>

hvars == <<cycles, observed, acted, dispatched, plan_failed, oracle_failed,
           terminal_iter, terminal_dispatch, failed_iter, decided,
           shot_failed, marker>>

svars == <<entry, pc, session, result, raised, exit_code>>

vars == <<pvars, svars, wsvars, wavars, hvars>>

\* ------------------------------------------------------------------------
\* Bounds
\* ------------------------------------------------------------------------

MaxSessions == 2

MaxSteps == 3

\* examples of the showdown dataset
NumExamples == 3

\* runs of evaluate_websight_on_showdown on one results directory
MaxRuns == 3

\* tasks a WebsightEvaluator executes in all
MaxTasks == 3

\* ------------------------------------------------------------------------
\* websight.py
\* ------------------------------------------------------------------------

MAX_ACTIONS == 10

NoParams ==
    [url |-> "absent", x |-> "absent", y |-> "absent", text |-> "absent",
     content |-> "absent", value_to_type |-> "absent", direction |-> "absent"]

GoodParams ==
    [url |-> "u", x |-> "12", y |-> "34", text |-> "absent",
     content |-> "hi", value_to_type |-> "absent", direction |-> "down"]

BadIntParams == [GoodParams EXCEPT !.x = "abc"]

\* dict.get(key) is None
is_none(v) == v \in {"absent", "null"}

\* bool(v) of an optional string
truthy(v) == v \notin {"absent", "null", ""}

\* int(v) returns
int_converts(v) == v \in {"12", "34", "500"}

\* NextTaskResponse / ImageAnalysisResponse; action is action_to_take and
\* params is element_details for the latter
Response(cls, action, params) ==
    [cls |-> cls, action |-> action, params |-> params]

None == Response("None", "", NoParams)

\* an oracle call that does not answer as asked: it raises, it answers with
\* a value of another type, or (vision) the screenshot raises
Failure(how) == Response(how, "", NoParams)

Failures == {Failure("raise"), Failure("other")}

\* the comparison with the fallback plan of get_plan_from_user_task is
\* forgotten
planning_failed_no_fallback(p) == p \in {"None", ""}

\* lines 330 and 272, 300: `not plan or plan == "Error in planning."`
planning_failed(p) == p \in {"None", ""} \/ p = "Error in planning."

\* the length check is off by one
is_task_completed_early(current_plan, state, completed_actions) ==
    IF planning_failed(plan) THEN FALSE
    ELSE IF \E i \in 1..Len(completed_actions) : completed_actions[i] = "finish"
         THEN TRUE
    ELSE IF Len(actions_done) >= MAX_ACTIONS - 1 THEN TRUE
    ELSE FALSE

is_task_completed(current_plan, state, completed_actions) ==
    IF planning_failed(plan) THEN FALSE
    ELSE IF \E i \in 1..Len(completed_actions) : completed_actions[i] = "finish"
         THEN TRUE
    ELSE IF Len(actions_done) >= MAX_ACTIONS THEN TRUE
    ELSE FALSE

\* the loop runs until 'finish' only: neither cap is checked
loop_continues_uncapped ==
    ~(\E i \in 1..Len(actions_done) : actions_done[i] = "finish")

\* lines 336-339: the while condition and the safety break
loop_continues ==
    /\ ~is_task_completed(plan, current_state, actions_done)
    /\ ~(actions_this_session >= MAX_ACTIONS)

\* the try block of execute_browser_action (lines 155-218): the primitive it
\* invokes ("none" when it invokes none), the value of success when the
\* block is left, and whether it is left by an exception; ok tells whether
\* the primitive returns
try_browser_action(details, ok) ==
    LET p == details.params
        invoke(prim) == [prim |-> prim, success |-> ok, exc |-> ~ok]
        skip == [prim |-> "none", success |-> FALSE, exc |-> FALSE]
        int_raises == [prim |-> "none", success |-> FALSE, exc |-> TRUE]
    IN  CASE details.action = "navigate" ->
                IF truthy(p.url) THEN invoke("goto_url") ELSE skip
          [] details.action = "click" ->
                IF ~is_none(p.x) /\ ~is_none(p.y)
                THEN IF int_converts(p.x) /\ int_converts(p.y)
                     THEN invoke("click") ELSE int_raises
                ELSE skip
          [] details.action = "type" ->
                IF ~is_none(p.content) \/ ~is_none(p.value_to_type)
                THEN invoke("type") ELSE skip
          [] details.action = "scroll" ->
                IF truthy(p.direction)
                THEN IF /\ (p.x = "absent" \/ int_converts(p.x))
                        /\ (p.y = "absent" \/ int_converts(p.y))
                     THEN invoke("scroll") ELSE int_raises
                ELSE skip
          [] details.action = "wait" -> invoke("wait")
          [] details.action = "finish" ->
                [prim |-> "none", success |-> TRUE, exc |-> FALSE]
          [] OTHER -> skip

\* the try block without its except clause
execute_browser_action_uncaught(details, ok) ==
    IF details.cls \notin {"NextTaskResponse", "ImageAnalysisResponse"}
    THEN [prim |-> "none", success |-> FALSE, exc |-> FALSE]
    ELSE try_browser_action(details, ok)

\* execute_browser_action: the primitive invoked, the return value, and
\* whether an exception leaves the function
execute_browser_action(details, ok) ==
    IF details.cls \notin {"NextTaskResponse", "ImageAnalysisResponse"}
    THEN [prim |-> "none", success |-> FALSE, exc |-> FALSE]
    ELSE LET t == try_browser_action(details, ok)
         IN  IF t.exc
             THEN [prim |-> t.prim, success |-> FALSE, exc |-> FALSE]
             ELSE t

\* the action is recorded whether it succeeded or not
update_state_and_actions_always(executed_action_type, success, llm) ==
    [actions_done |-> Append(actions_done, executed_action_type),
     current_state |->
         IF success
         THEN CASE llm = "ok"    -> "new_state"
                [] llm = "other" -> "State update failed"
                [] llm = "raise" -> "LLM update failed"
         ELSE "State after failed attempt"]

\* update_state_and_actions: the new (current_state, actions_done); llm is
\* the outcome of its state-tracking call
update_state_and_actions(executed_action_type, success, llm) ==
    IF success
    THEN [actions_done |-> Append(actions_done, executed_action_type),
          current_state |->
              CASE llm = "ok"    -> "new_state"
                [] llm = "other" -> "State update failed"
                [] llm = "raise" -> "LLM update failed"]
    ELSE [actions_done |-> actions_done,
          current_state |-> "State after failed attempt"]

\* the loop goes on after a failed action
breaks_on_failure_never(success) == FALSE

\* line 395: the loop is left when the action failed
breaks_on_failure(success) == ~success

\* summarize_task_results
summarize_task_results(llm) ==
    IF planning_failed(plan)
    THEN "Task could not be summarized because planning failed."
    ELSE IF llm = "ok" THEN "summary" ELSE "Summary generation failed."

\* what the decomposer and the vision model may answer: the action of a
\* response is any str (lines 8, 16); "FINISHED" is the word prompts.py:76
\* asks for at the end of a task
DirectiveActions == {"navigate", "click", "finish", "FINISHED"}

VisionActions == {"click", "finish", "hover"}

ParamChoices == {NoParams, GoodParams, BadIntParams}

Directives ==
    {Response("NextTaskResponse", a, p) :
        a \in DirectiveActions, p \in ParamChoices}

VisualDetails ==
    {Response("ImageAnalysisResponse", a, p) :
        a \in VisionActions, p \in ParamChoices}

UpperCase ==
    <<"A","B","C","D","E","F","G","H","I","J","K",
      "L","M","N","O","P","Q","R","S","T","U","V","W","X","Y","Z">>

LowerCase ==
    <<"a","b","c","d","e","f","g","h","i","j","k",
      "l","m","n","o","p","q","r","s","t","u","v","w","x","y","z">>

\* str.lower()
lower(s) ==
    [i \in 1..Len(s) |->
        IF \E k \in 1..Len(UpperCase) : UpperCase[k] = s[i]
        THEN LowerCase[CHOOSE k \in 1..Len(UpperCase) : UpperCase[k] = s[i]]
        ELSE s[i]]

\* the characters of an action name
action_text(a) ==
    CASE a = "navigate" -> <<"n","a","v","i","g","a","t","e">>
      [] a = "click"    -> n_click
      [] a = "finish"   -> <<"f","i","n","i","s","h">>
      [] a = "FINISHED" -> <<"F","I","N","I","S","H","E","D">>
      [] a = "hover"    -> <<"h","o","v","e","r">>

\* "finished" in a.lower()
has_finished_marker(a) == contains(lower(action_text(a)), n_finished)

\* the screenshot is analysed whatever the action
needs_screenshot_always(action) == TRUE

\* line 362: the screenshot is analysed for these actions only
needs_screenshot(action) == action \notin {"navigate", "wait", "finish"}

\* no fall back to the directive
choose_action_no_fallback(visual_action_details, directive) ==
    visual_action_details

\* lines 368-372: the refined action, or the directive when there is none
choose_action(visual_action_details, directive) ==
    IF visual_action_details # None THEN visual_action_details
    ELSE directive

\* the end of the task is found by a search of "finished" in the lowered
\* action text
get_next_task_marker(o) ==
    IF o.cls # "NextTaskResponse" THEN None
    ELSE IF o.action = "finish" \/ has_finished_marker(o.action) THEN None
    ELSE o

\* get_next_task: None for 'finish', for a response of another type and for
\* an exception of the call
get_next_task(o) ==
    IF o.cls # "NextTaskResponse" THEN None
    ELSE IF o.action = "finish" THEN None
    ELSE o

\* process_screenshot_and_decide_action: None when the screenshot or the
\* analysis raises or the analysis answers with another type
process_screenshot_and_decide_action(o) ==
    IF o.cls # "ImageAnalysisResponse" THEN None ELSE o

ResetHistory ==
    /\ cycles' = 0
    /\ observed' = 0
    /\ acted' = 0
    /\ dispatched' = 0
    /\ oracle_failed' = FALSE
    /\ terminal_iter' = 0
    /\ terminal_dispatch' = 0
    /\ failed_iter' = 0
    /\ decided' = 0
    /\ shot_failed' = FALSE
    /\ marker' = FALSE

\* actions_done is never emptied
get_plan_from_user_task_no_reset(o) ==
    [plan |-> CASE o = "ok" -> "plan" [] o = "empty" -> ""
                [] o = "raise" -> "Error in planning.",
     current_state |-> IF o = "raise" THEN "Error in planning."
                       ELSE "Plan generated.",
     actions_done |-> actions_done]

\* get_plan_from_user_task: the new (plan, current_state, actions_done) when
\* the planning call answers with a plan, with an empty text, or raises
get_plan_from_user_task(o) ==
    [plan |-> CASE o = "ok" -> "plan" [] o = "empty" -> ""
                [] o = "raise" -> "Error in planning.",
     current_state |-> IF o = "raise" THEN "Error in planning."
                       ELSE "Plan generated.",
     actions_done |-> IF o = "raise" THEN actions_done ELSE <<>>]

\* main_loop is called: get_plan_from_user_task, and the halt on a planning
\* failure (lines 329-333)
GetPlan ==
    /\ entry = "main_loop"
    /\ pc \in {"idle", "done"}
    /\ exit_code = -1
    /\ session < MaxSessions
    /\ session' = session + 1
    /\ ResetHistory
    /\ \E o \in {"ok", "empty", "raise"} :
          /\ plan' = get_plan_from_user_task(o).plan
          /\ current_state' = get_plan_from_user_task(o).current_state
          /\ actions_done' = get_plan_from_user_task(o).actions_done
          /\ plan_failed' = (o = "raise")
          /\ IF planning_failed(plan')
             THEN /\ summary' =
                       "Task could not be summarized because planning failed."
                  /\ result' = "None"
                  /\ pc' = "done"
                  /\ UNCHANGED actions_this_session
             ELSE /\ actions_this_session' = 0
                  /\ result' = "pending"
                  /\ pc' = "loop"
                  /\ summary' = ""
    /\ raised' = FALSE
    /\ UNCHANGED <<entry, exit_code, next_task_directive, action_to_execute>>
    /\ UNCHANGED <<pvars, wavars>>

\* the loop head is evaluated again and again once its condition fails
LoopExit_spins ==
    /\ entry = "main_loop"
    /\ pc = "loop"
    /\ ~loop_continues
    /\ UNCHANGED vars

\* the loop is left by its condition or by the safety break
LoopExit ==
    /\ entry = "main_loop"
    /\ pc = "loop"
    /\ ~loop_continues
    /\ pc' = "summarize"
    /\ UNCHANGED <<entry, session, result, raised, exit_code>>
    /\ UNCHANGED <<pvars, wsvars, wavars, hvars>>

\* an iteration begins whatever the loop condition says
IterationBegins_always ==
    /\ entry = "main_loop"
    /\ pc = "loop"

\* lines 336-339: the body of the loop is entered past the safety break
IterationBegins ==
    /\ entry = "main_loop"
    /\ pc = "loop"
    /\ loop_continues

\* one iteration begins: get_next_task and the choice of the path
\* (lines 342-374).  The locals next_task_directive and action_to_execute
\* are assigned afresh in every iteration; they are held here only while
\* a later statement of the iteration reads them.
Decide ==
    /\ IterationBegins
    /\ cycles' = cycles + 1
    /\ decided' = decided + 1
    /\ \E o \in Directives \cup Failures :
          LET d == get_next_task(o) IN
          /\ oracle_failed' = (oracle_failed \/ o \in Failures)
          /\ marker' = (o \in Directives /\ has_finished_marker(o.action))
          /\ IF d = None \/ d.action = "finish"
             THEN /\ actions_done' = Append(actions_done, "finish")
                  /\ terminal_iter' =
                       IF o \in Failures THEN terminal_iter
                       ELSE cycles'
                  /\ pc' = "summarize"
                  /\ UNCHANGED <<next_task_directive, action_to_execute>>
             ELSE IF needs_screenshot(d.action)
             THEN /\ next_task_directive' = d
                  /\ pc' = "observe"
                  /\ UNCHANGED <<actions_done, terminal_iter,
                                 action_to_execute>>
             ELSE /\ action_to_execute' = d
                  /\ pc' = "act"
                  /\ UNCHANGED <<actions_done, terminal_iter,
                                 next_task_directive>>
    /\ UNCHANGED <<plan, current_state, actions_this_session, summary>>
    /\ UNCHANGED <<entry, session, result, raised, exit_code>>
    /\ UNCHANGED <<observed, acted, dispatched, plan_failed,
                   terminal_dispatch, failed_iter, shot_failed>>
    /\ UNCHANGED <<pvars, wavars>>

\* the screenshot analysis, with the fall back to the directive and the
\* break when no action is left (lines 362-380)
Observe ==
    /\ entry = "main_loop"
    /\ pc = "observe"
    /\ observed' = observed + 1
    /\ \E o \in VisualDetails \cup Failures
                               \cup {Failure("screenshot_raise")} :
          LET v == process_screenshot_and_decide_action(o) IN
          /\ shot_failed' = (o = Failure("screenshot_raise"))
          /\ action_to_execute' = choose_action(v, next_task_directive)
          /\ terminal_iter' = IF v # None /\ v.action = "finish"
                              THEN cycles ELSE terminal_iter
    /\ next_task_directive' = None
    /\ pc' = IF action_to_execute' = None THEN "summarize" ELSE "act"
    /\ UNCHANGED <<plan, current_state, actions_done, actions_this_session,
                   summary>>
    /\ UNCHANGED <<entry, session, result, raised, exit_code>>
    /\ UNCHANGED <<cycles, acted, dispatched, plan_failed, oracle_failed,
                   terminal_dispatch, failed_iter, decided, marker>>
    /\ UNCHANGED <<pvars, wavars>>

\* execute_browser_action, update_state_and_actions, the break on failure
\* and the wait before the next iteration (lines 384-402)
Act ==
    /\ entry = "main_loop"
    /\ pc = "act"
    /\ acted' = acted + 1
    /\ \E ok \in BOOLEAN, llm \in {"ok", "other", "raise"},
          wait_ok \in BOOLEAN :
          LET r == execute_browser_action(action_to_execute, ok)
              u == update_state_and_actions(action_to_execute.action,
                                            r.success, llm)
              n == IF r.prim = "none" THEN 0 ELSE 1
          IN
          /\ dispatched' = dispatched + n
          /\ terminal_dispatch' =
                IF terminal_iter # 0 THEN terminal_dispatch + n
                ELSE terminal_dispatch
          /\ failed_iter' = IF r.success THEN failed_iter ELSE cycles
          /\ actions_done' = u.actions_done
          /\ current_state' = u.current_state
          /\ IF breaks_on_failure(r.success)
             THEN /\ pc' = "summarize"
                  /\ UNCHANGED <<actions_this_session, result, raised>>
             ELSE /\ actions_this_session' = actions_this_session + 1
                  /\ IF wait_ok
                     THEN /\ pc' = "loop"
                          /\ UNCHANGED <<result, raised>>
                     ELSE /\ pc' = "done"
                          /\ result' = "raised"
                          /\ raised' = TRUE
    /\ action_to_execute' = None
    /\ shot_failed' = FALSE
    /\ marker' = FALSE
    /\ UNCHANGED <<plan, next_task_directive, summary>>
    /\ UNCHANGED <<entry, session, exit_code>>
    /\ UNCHANGED <<cycles, observed, plan_failed, oracle_failed,
                   terminal_iter, decided>>
    /\ UNCHANGED <<pvars, wavars>>

\* summarize_task_results, then main_loop returns (lines 405-406)
Summarize ==
    /\ entry = "main_loop"
    /\ pc = "summarize"
    /\ \E llm \in {"ok", "raise"} : summary' = summarize_task_results(llm)
    /\ result' = "None"
    /\ pc' = "done"
    /\ UNCHANGED <<plan, current_state, actions_done, actions_this_session,
                   next_task_directive, action_to_execute>>
    /\ UNCHANGED <<entry, session, raised, exit_code>>
    /\ UNCHANGED <<pvars, wavars, hvars>>

\* the __main__ block (lines 409-423): main_loop is called once unless the
\* input is empty, an exception of it is caught and printed, and the
\* browser is closed in the finally clause; the process ends with status 0
\* unless close() raises
MainExit ==
    /\ entry = "main_loop"
    /\ exit_code = -1
    /\ \/ pc = "idle" /\ session = 0
       \/ pc = "done" /\ session = 1
    /\ \E close_ok \in BOOLEAN : exit_code' = IF close_ok THEN 0 ELSE 1
    /\ UNCHANGED <<entry, pc, session, result, raised>>
    /\ UNCHANGED <<pvars, wsvars, wavars, hvars>>

\* ------------------------------------------------------------------------
\* old/agent.py WebAgent, old/task.py Task
\* ------------------------------------------------------------------------

ActionKinds ==
    {"click", "type", "scroll", "navigate", "hotkey", "wait", "complete"}

\* ActionDecision; coordinates and content are None or present
ActionDecision(action, coordinates, content, is_task_complete) ==
    [action |-> action, coordinates |-> coordinates, content |-> content,
     is_task_complete |-> is_task_complete]

NoDecision == ActionDecision("", "None", "None", FALSE)

Decisions ==
    {ActionDecision(a, c, t, f) :
        a \in ActionKinds, c \in {"None", "pair"}, t \in {"None", "text"},
        f \in BOOLEAN}

\* Task.__init__; steps_taken starts as the text "No steps taken yet.",
\* written 0 here, and step n is appended as n
Task(id) ==
    [id |-> id, steps_taken |-> <<0>>,
     current_state |-> "Have not started yet.", saved |-> FALSE]

NoTask ==
    [id |-> 0, steps_taken |-> <<>>, current_state |-> "", saved |-> FALSE]

\* the step replaces what was recorded
add_step_taken_overwrite(task, step) ==
    [task EXCEPT !.steps_taken = <<step>>]

\* Task.add_step_taken (task.py:44-49): steps_taken += "\n" + step
add_step_taken(task, step) ==
    [task EXCEPT !.steps_taken = Append(@, step)]

update_current_state(task, state) == [task EXCEPT !.current_state = state]

save_to_file(task) == [task EXCEPT !.saved = TRUE]

\* _execute_action: the browser primitive it invokes, "none" when no branch
\* applies or the action is complete
execute_action(action) ==
    CASE action.action = "click" /\ action.coordinates # "None" -> "click"
      [] action.action = "type" /\ action.content # "None" -> "type"
      [] action.action = "scroll" -> "scroll"
      [] action.action = "navigate" /\ action.content # "None" -> "goto_url"
      [] action.action = "hotkey" /\ action.content # "None" -> "hotkey"
      [] action.action = "wait" -> "wait"
      [] OTHER -> "none"

\* the is_task_complete flag is not looked at
task_is_complete_action_only(action) == action.action = "complete"

\* line 133
task_is_complete(action) ==
    action.action = "complete" \/ action.is_task_complete

\* execute_task without its try/except: the exception reaches the caller
execute_task_uncaught == [result |-> "raised", raised |-> TRUE]

\* the except clause of execute_task (lines 74-80): what the caller gets
execute_task_except ==
    [result |-> "Task execution failed", raised |-> FALSE]

\* an exception reaches the except clause of execute_task
Excepted ==
    /\ result' = execute_task_except.result
    /\ raised' = execute_task_except.raised
    /\ current_task' =
          IF current_task # NoTask
          THEN save_to_file(update_current_state(current_task,
                                                 "Task execution failed"))
          ELSE current_task
    /\ pc' = "done"

\* _finalize_task
Finalized(task, text) ==
    /\ current_task' = save_to_file(update_current_state(task, text))
    /\ result' = text
    /\ pc' = "done"
    /\ UNCHANGED raised

\* execute_task is called: _generate_plan and the new Task (lines 54-64)
WAPlan ==
    /\ entry = "WebAgent"
    /\ pc \in {"idle", "done"}
    /\ session < MaxSessions
    /\ session' = session + 1
    /\ ResetHistory
    /\ decision' = NoDecision
    /\ \E ok \in BOOLEAN, n \in 0..MaxSteps :
          /\ plan_failed' = ~ok
          /\ IF ok
             THEN /\ task_plan' = n
                  /\ step_num' = 0
                  /\ current_task' = Task(session')
                  /\ result' = "pending"
                  /\ raised' = FALSE
                  /\ pc' = "open"
             ELSE /\ Excepted
                  /\ UNCHANGED <<task_plan, step_num>>
    /\ UNCHANGED <<entry, exit_code>>
    /\ UNCHANGED <<pvars, wsvars>>

\* the browser is opened on a blank page and screenshotted (lines 66-69)
WAOpen ==
    /\ entry = "WebAgent"
    /\ pc = "open"
    /\ \E goto_ok \in BOOLEAN, shot_ok \in BOOLEAN :
          IF goto_ok /\ shot_ok
          THEN /\ current_task' =
                    update_current_state(current_task, "Initial browser state")
               /\ pc' = "steps"
               /\ UNCHANGED <<result, raised, shot_failed>>
          ELSE /\ shot_failed' = goto_ok
               /\ Excepted
    /\ UNCHANGED <<entry, session, exit_code, task_plan, step_num, decision>>
    /\ UNCHANGED <<cycles, observed, acted, dispatched, plan_failed,
                   oracle_failed, terminal_iter, terminal_dispatch,
                   failed_iter, decided, marker>>
    /\ UNCHANGED <<pvars, wsvars>>

\* the next step of the plan begins with its screenshot (lines 111-115)
WAObserve ==
    /\ entry = "WebAgent"
    /\ pc = "steps"
    /\ step_num < task_plan
    /\ step_num' = step_num + 1
    /\ cycles' = cycles + 1
    /\ observed' = observed + 1
    /\ \E shot_ok \in BOOLEAN :
          IF shot_ok
          THEN /\ current_task' =
                    update_current_state(current_task, "Before step")
               /\ pc' = "decide"
               /\ UNCHANGED <<result, raised, shot_failed>>
          ELSE /\ shot_failed' = TRUE
               /\ Excepted
    /\ UNCHANGED <<entry, session, exit_code, task_plan, decision>>
    /\ UNCHANGED <<acted, dispatched, plan_failed, oracle_failed,
                   terminal_iter, terminal_dispatch, failed_iter, decided,
                   marker>>
    /\ UNCHANGED <<pvars, wsvars>>

\* the plan has no step left (line 139)
WAFinish ==
    /\ entry = "WebAgent"
    /\ pc = "steps"
    /\ step_num >= task_plan
    /\ Finalized(current_task, "Plan execution completed")
    /\ UNCHANGED <<entry, session, exit_code, task_plan, step_num, decision>>
    /\ UNCHANGED <<pvars, wsvars, hvars>>

\* _decide_next_action (lines 117-119)
WADecide ==
    /\ entry = "WebAgent"
    /\ pc = "decide"
    /\ decided' = decided + 1
    /\ \E ok \in BOOLEAN, d \in Decisions :
          IF ok
          THEN /\ decision' = d
               /\ terminal_iter' =
                    IF d.action = "complete" \/ d.is_task_complete
                    THEN cycles ELSE terminal_iter
               /\ pc' = "act"
               /\ UNCHANGED <<result, raised, current_task, oracle_failed>>
          ELSE /\ oracle_failed' = TRUE
               /\ Excepted
               /\ UNCHANGED <<decision, terminal_iter>>
    /\ UNCHANGED <<entry, session, exit_code, task_plan, step_num>>
    /\ UNCHANGED <<cycles, observed, acted, dispatched, plan_failed,
                   terminal_dispatch, failed_iter, shot_failed,
                   marker>>
    /\ UNCHANGED <<pvars, wsvars>>

\* _execute_action, the progress update and the completion check
\* (lines 125-137)
WAAct ==
    /\ entry = "WebAgent"
    /\ pc = "act"
    /\ acted' = acted + 1
    /\ LET prim == execute_action(decision)
           n == IF prim = "none" THEN 0 ELSE 1
       IN
       /\ dispatched' = dispatched + n
       /\ terminal_dispatch' =
             IF terminal_iter # 0 THEN terminal_dispatch + n
             ELSE terminal_dispatch
       /\ \E ok \in BOOLEAN :
             IF prim # "none" /\ ~ok
             THEN /\ failed_iter' = cycles
                  /\ Excepted
             ELSE /\ UNCHANGED failed_iter
                  /\ LET t == update_current_state(
                                 add_step_taken(current_task, step_num),
                                 "next_step_description")
                     IN  IF task_is_complete(decision)
                         THEN Finalized(t, "Task completed successfully")
                         ELSE /\ current_task' = t
                              /\ pc' = "steps"
                              /\ UNCHANGED <<result, raised>>
    /\ UNCHANGED <<entry, session, exit_code, task_plan, step_num, decision>>
    /\ UNCHANGED <<cycles, observed, plan_failed, oracle_failed,
                   terminal_iter, decided, shot_failed, marker>>
    /\ UNCHANGED <<pvars, wsvars>>

\* ------------------------------------------------------------------------
\* Specifications
\* ------------------------------------------------------------------------

NoRequest ==
    [cls |-> "none", kind |-> "", head |-> <<>>, m1 |-> "none",
     m2 |-> "none", args |-> <<>>, text |-> <<>>]

NotReturned == Raise("none", <<>>)

ParserOff ==
    /\ req = NoRequest
    /\ reasoning = <<>>
    /\ out = NotReturned
    /\ pstate = "off"

NoExample == [id |-> 0, what |-> "none"]

NoStats ==
    [total_tasks |-> 0, successful_executions |-> 0, correct_answers |-> 0,
     by_website |-> <<>>]

\* no showdown run was started: the results directory is empty
ShowdownIdle ==
    /\ results_file = <<>>
    /\ results = <<>>
    /\ existing_results = {}
    /\ remaining_examples = <<>>
    /\ sent = {}
    /\ loaded = FALSE
    /\ last_example = NoExample
    /\ spc = "idle"
    /\ runs = 0

\* a WebsightEvaluator as __init__ leaves it
EvaluatorIdle ==
    /\ ev_results = <<>>
    /\ stats = NoStats
    /\ tasks_run = 0

SessionsIdle ==
    /\ pc = "idle"
    /\ session = 0
    /\ result = "pending"
    /\ raised = FALSE
    /\ exit_code = -1
    /\ plan = "None"
    /\ current_state = "nothing done"
    /\ actions_done = <<>>
    /\ actions_this_session = 0
    /\ next_task_directive = None
    /\ action_to_execute = None
    /\ summary = ""
    /\ task_plan = -1
    /\ step_num = 0
    /\ current_task = NoTask
    /\ decision = NoDecision
    /\ cycles = 0
    /\ observed = 0
    /\ acted = 0
    /\ dispatched = 0
    /\ plan_failed = FALSE
    /\ oracle_failed = FALSE
    /\ terminal_iter = 0
    /\ terminal_dispatch = 0
    /\ failed_iter = 0
    /\ decided = 0
    /\ shot_failed = FALSE
    /\ marker = FALSE

\* the agent sessions: a process that calls main_loop, or a WebAgent whose
\* execute_task is called, up to MaxSessions times
Init ==
    /\ entry \in {"main_loop", "WebAgent"}
    /\ SessionsIdle
    /\ ParserOff
    /\ ShowdownIdle
    /\ EvaluatorIdle

Next ==
    \/ GetPlan
    \/ LoopExit
    \/ Decide
    \/ Observe
    \/ Act
    \/ Summarize
    \/ MainExit
    \/ WAPlan
    \/ WAOpen
    \/ WAObserve
    \/ WAFinish
    \/ WADecide
    \/ WAAct

Spec == Init /\ [][Next]_vars

\* a step of a session that has begun: every call of the loops returns or
\* raises, so the statement after it is reached
SessionStep ==
    \/ LoopExit
    \/ Decide
    \/ Observe
    \/ Act
    \/ Summarize
    \/ WAOpen
    \/ WAObserve
    \/ WAFinish
    \/ WADecide
    \/ WAAct

\* the agent sessions, where a session that has begun keeps running; when
\* a session is started, and whether the process exits, is up to the caller
SpecFair == Init /\ [][Next]_vars /\ WF_vars(SessionStep)

\* one call of parse_action on a request
Parse ==
    /\ pstate = "ready"
    /\ out' = parse_action(req.text, reasoning)
    /\ pstate' = "returned"
    /\ UNCHANGED <<req, reasoning, shvars, evvars>>
    /\ UNCHANGED <<svars, wsvars, wavars, hvars>>

InitParse ==
    /\ req \in Requests
    /\ reasoning \in Reasonings
    /\ out = NotReturned
    /\ pstate = "ready"
    /\ entry = "none"
    /\ SessionsIdle
    /\ ShowdownIdle
    /\ EvaluatorIdle

NextParse == Parse

SpecParse == InitParse /\ [][NextParse]_vars

\* the action types and parameter dicts execute_browser_action is called
\* with; "null" is a key whose value is None
ExecActions ==
    {"navigate", "click", "type", "scroll", "wait", "finish", "hover"}

ExecParams ==
    {NoParams, GoodParams, BadIntParams,
     [GoodParams EXCEPT !.x = "null"],
     [NoParams EXCEPT !.value_to_type = "v"],
     [NoParams EXCEPT !.direction = "up"]}

\* an argument of execute_browser_action and whether the browser primitive
\* it reaches returns
ExecRequests ==
    [details : {Response(cls, a, q) :
                    cls \in {"NextTaskResponse", "ImageAnalysisResponse",
                             "other"},
                    a \in ExecActions, q \in ExecParams},
     ok : BOOLEAN]

\* one call of execute_browser_action
Exec ==
    /\ pstate = "ready"
    /\ out' = execute_browser_action(req.details, req.ok)
    /\ pstate' = "returned"
    /\ UNCHANGED <<req, reasoning, shvars, evvars>>
    /\ UNCHANGED <<svars, wsvars, wavars, hvars>>

InitExec ==
    /\ req \in ExecRequests
    /\ reasoning = <<>>
    /\ out = NotReturned
    /\ pstate = "ready"
    /\ entry = "none"
    /\ SessionsIdle
    /\ ShowdownIdle
    /\ EvaluatorIdle

NextExec == Exec

SpecExec == InitExec /\ [][NextExec]_vars

t_thought == <<"T","h","o","u","g","h","t",":"," ">>

t_action == <<"A","c","t","i","o","n",":"," ">>

t_temp == <<"t","e","m","p"," ">>

\* what vlm_call gives its caller: the Action returned or the exception
\* raised, and whether parse_action was called
VlmResult(r, parsed) == [r |-> r, parsed |-> parsed]

\* the two splits outside a try block: a missing marker raises
vlm_call_no_try(text) ==
    LET response_text == t_temp \o text
        thought == split(response_text, t_thought)
        act == split(response_text, t_action)
    IN  IF Len(thought) < 2 \/ Len(act) < 2
        THEN VlmResult(IndexError, FALSE)
        ELSE VlmResult(
                parse_action(
                    strip(act[2], Whitespace),
                    strip(split(thought[2], <<"\n">> \o t_action)[1],
                          Whitespace)),
                TRUE)

\* vlm_call from the model's answer on (vlm.py:76-88; the same lines are
\* uitars_finetuned.py:160-172): response_text is reassigned inside the try
\* block, and parse_action is called after it
vlm_call(text) ==
    LET response_text == t_temp \o text
        thought == split(response_text, t_thought)
        act == split(response_text, t_action)
    IN  IF Len(thought) < 2 \/ Len(act) < 2
        THEN VlmResult(Action("error", <<>>, response_text), FALSE)
        ELSE VlmResult(
                parse_action(
                    strip(act[2], Whitespace),
                    strip(split(thought[2], <<"\n">> \o t_action)[1],
                          Whitespace)),
                TRUE)

\* answers of the model: with and without each marker
VlmHeads ==
    {<<>>, t_thought, <<"t","h","o","u","g","h","t",":"," ">>,
     <<"T","h","o","u","g","h","t",":">>}

VlmThoughts == {<<"o","k">>, <<>>, <<"a"," ","b">>}

VlmSeps ==
    {<<"\n">> \o t_action, <<" ">> \o t_action,
     <<"\n","a","c","t","i","o","n",":"," ">>, <<>>}

VlmActions ==
    {<<"w","a","i","t","(",")">>, <<"f","l","y","(",")">>, <<>>,
     call(n_click, kv_point("point", str(10), str(120)))}

VlmResponses ==
    {[text |-> h \o t \o p \o a] :
        h \in VlmHeads, t \in VlmThoughts, p \in VlmSeps, a \in VlmActions}

\* one call of vlm_call, from the answer of the model on
Vlm ==
    /\ pstate = "ready"
    /\ out' = vlm_call(req.text)
    /\ pstate' = "returned"
    /\ UNCHANGED <<req, reasoning, shvars, evvars>>
    /\ UNCHANGED <<svars, wsvars, wavars, hvars>>

InitVlm ==
    /\ req \in VlmResponses
    /\ reasoning = <<>>
    /\ out = NotReturned
    /\ pstate = "ready"
    /\ entry = "none"
    /\ SessionsIdle
    /\ ShowdownIdle
    /\ EvaluatorIdle

NextVlm == Vlm

SpecVlm == InitVlm /\ [][NextVlm]_vars

\* ------------------------------------------------------------------------
\* eval/showdown/clicks.py: evaluate_websight_on_showdown, resumed run
\* after run on one results directory (eval_tests/showdown/clicks.py is the
\* same code around vlm_call)
\* ------------------------------------------------------------------------

\* the ids of the dataset, in its order
Dataset == [i \in 1..NumExamples |-> i]

Range(s) == {s[i] : i \in 1..Len(s)}

\* list({r["id"]: r for r in results}.values()): one entry per id, in the
\* order the ids first occur
RECURSIVE dict_values(_)
dict_values(rows) ==
    IF rows = <<>> THEN <<>>
    ELSE LET before == dict_values(SubSeq(rows, 1, Len(rows) - 1))
             r == rows[Len(rows)]
         IN  IF r \in Range(before) THEN before ELSE Append(before, r)

\* load_existing_results: the dict of the stored entries, {} when the file
\* is missing and {} as well when np.load raises
load_existing_results(file, load_ok) ==
    IF file = <<>> \/ ~load_ok THEN <<>> ELSE dict_values(file)

\* dataset.select(range(min(max_examples, len(dataset)))) under
\* `if max_examples:`; 0 stands for None
select(dataset, max_examples) ==
    IF max_examples = 0 THEN dataset
    ELSE SubSeq(dataset, 1,
                IF max_examples < Len(dataset) THEN max_examples
                ELSE Len(dataset))

\* every example is evaluated, stored or not
remaining_unfiltered(dataset, existing) == dataset

\* [ex for ex in dataset if ex["id"] not in existing_results]
remaining(dataset, existing) ==
    SelectSeq(dataset, LAMBDA id : id \notin existing)

\* what can become of one example of the loop: get_image_base64 returned
\* None; websight_call, int(), check_prediction_in_bbox,
\* visualize_prediction or EvaluationResult raised; save_results raised
\* after the append; save_results returned
ExampleOutcomes == {"no_image", "raised", "save_raised", "saved"}

\* the start of a run up to the loop: the stored results are loaded and the
\* examples to evaluate chosen
ShowdownStart ==
    /\ spc = "idle"
    /\ runs < MaxRuns
    /\ \E max_examples \in 0..NumExamples, load_ok \in BOOLEAN :
         LET existing == load_existing_results(results_file, load_ok)
         IN  /\ results_file = <<>> => load_ok
             /\ loaded' = load_ok
             /\ existing_results' = Range(existing)
             /\ results' = existing
             /\ remaining_examples' =
                   remaining(select(Dataset, max_examples), Range(existing))
    /\ sent' = {}
    /\ last_example' = NoExample
    /\ spc' = "loop"
    /\ runs' = runs + 1
    /\ UNCHANGED results_file
    /\ UNCHANGED <<req, reasoning, out, pstate, evvars>>
    /\ UNCHANGED <<svars, wsvars, wavars, hvars>>

\* one iteration of the loop over remaining_examples, the `continue`s
\* included
ShowdownExample ==
    /\ spc = "loop"
    /\ remaining_examples # <<>>
    /\ \E what \in ExampleOutcomes :
         LET id == Head(remaining_examples)
         IN  /\ last_example' = [id |-> id, what |-> what]
             /\ sent' = IF what = "no_image" THEN sent ELSE sent \cup {id}
             /\ results' = IF what \in {"save_raised", "saved"}
                           THEN Append(results, id) ELSE results
             /\ results_file' = IF what = "saved"
                                THEN Append(results, id) ELSE results_file
    /\ remaining_examples' = Tail(remaining_examples)
    /\ UNCHANGED <<existing_results, loaded, spc, runs>>
    /\ UNCHANGED <<req, reasoning, out, pstate, evvars>>
    /\ UNCHANGED <<svars, wsvars, wavars, hvars>>

\* the loop is over: analyze_results prints, the run returns
ShowdownEnd ==
    /\ spc = "loop"
    /\ remaining_examples = <<>>
    /\ spc' = "idle"
    /\ UNCHANGED <<results_file, results, existing_results,
                   remaining_examples, sent, loaded, last_example, runs>>
    /\ UNCHANGED <<req, reasoning, out, pstate, evvars>>
    /\ UNCHANGED <<svars, wsvars, wavars, hvars>>

InitShowdown ==
    /\ ParserOff
    /\ entry = "none"
    /\ SessionsIdle
    /\ ShowdownIdle
    /\ EvaluatorIdle

NextShowdown ==
    \/ ShowdownStart
    \/ ShowdownExample
    \/ ShowdownEnd

SpecShowdown == InitShowdown /\ [][NextShowdown]_vars

\* ------------------------------------------------------------------------
\* evaluate_websight.py: WebsightEvaluator
\* ------------------------------------------------------------------------

\* web_name of the tasks of the dataset
Websites == {"Amazon", "ArXiv"}

\* how subprocess.run of websight.py ends
ExecutionOutcomes == {"returncode_0", "returncode_1", "timeout", "exception"}

\* the fields of a TaskResult the evaluation and the statistics read;
\* evaluation_score is in tenths
TaskResult(web_name, success, error_message) ==
    [web_name |-> web_name, success |-> success,
     error_message |-> error_message, evaluation_score |-> 0,
     is_correct |-> FALSE]

\* execute_websight_task: success only for return code 0
execute_websight_task(web_name, how) ==
    CASE how = "returncode_0" -> TaskResult(web_name, TRUE, "")
      [] how = "returncode_1" -> TaskResult(web_name, FALSE, "Return code")
      [] how = "timeout" ->
            TaskResult(web_name, FALSE, "Task execution timed out")
      [] OTHER -> TaskResult(web_name, FALSE, "Execution error")

\* the answers of the evaluation model: the call or json.loads raises, or a
\* JSON object whose is_correct and confidence keys are present or not
\* (confidence in tenths, -1 for absent)
JudgeAnswers ==
    {[raises |-> TRUE, is_correct |-> "absent", confidence |-> -1]}
    \cup [raises : {FALSE}, is_correct : {"true", "false", "absent"},
          confidence : {-1, 0, 5, 10}]

\* the judge is asked whatever the execution did
evaluate_response_ungated(r, judge) ==
    IF judge.raises
    THEN [r EXCEPT !.evaluation_score = 0, !.is_correct = FALSE]
    ELSE [r EXCEPT
            !.is_correct = (judge.is_correct = "true"),
            !.evaluation_score =
                IF judge.confidence = -1 THEN 0 ELSE judge.confidence]

\* evaluate_response: a failed execution is scored without the judge; the
\* except clause scores a failed evaluation the same way
evaluate_response(r, judge) ==
    IF ~r.success
    THEN [r EXCEPT !.evaluation_score = 0, !.is_correct = FALSE]
    ELSE IF judge.raises
    THEN [r EXCEPT !.evaluation_score = 0, !.is_correct = FALSE]
    ELSE [r EXCEPT
            !.is_correct = (judge.is_correct = "true"),
            !.evaluation_score =
                IF judge.confidence = -1 THEN 0 ELSE judge.confidence]

\* sum(1 for r in rs if r.web_name in group and r[flag])
Count(rs, group, flag) ==
    Cardinality({i \in 1..Len(rs) :
                    rs[i].web_name \in group /\ rs[i][flag]})

\* len of the results of a group
Total(rs, group) ==
    Cardinality({i \in 1..Len(rs) : rs[i].web_name \in group})

\* calculate_statistics: the counts, overall and grouped by web_name
calculate_statistics(rs) ==
    IF rs = <<>> THEN NoStats
    ELSE
    [total_tasks |-> Len(rs),
     successful_executions |-> Count(rs, Websites, "success"),
     correct_answers |-> Count(rs, Websites, "is_correct"),
     by_website |->
        [w \in {rs[i].web_name : i \in 1..Len(rs)} |->
            [total |-> Total(rs, {w}),
             correct |-> Count(rs, {w}, "is_correct"),
             success |-> Count(rs, {w}, "success")]]]

\* one iteration of the loop of run_evaluation: execute, evaluate, store
RunTask ==
    /\ Len(ev_results) < MaxTasks
    /\ \E w \in Websites, how \in ExecutionOutcomes, judge \in JudgeAnswers :
         ev_results' =
            Append(ev_results,
                   evaluate_response(execute_websight_task(w, how), judge))
    /\ tasks_run' = tasks_run + 1
    /\ UNCHANGED stats
    /\ UNCHANGED <<req, reasoning, out, pstate, shvars>>
    /\ UNCHANGED <<svars, wsvars, wavars, hvars>>

\* the end of run_evaluation, after the last task of a non-empty dataset
CalculateStatistics ==
    /\ tasks_run > 0
    /\ stats' = calculate_statistics(ev_results)
    /\ tasks_run' = 0
    /\ UNCHANGED ev_results
    /\ UNCHANGED <<req, reasoning, out, pstate, shvars>>
    /\ UNCHANGED <<svars, wsvars, wavars, hvars>>

InitEvaluator ==
    /\ ParserOff
    /\ entry = "none"
    /\ SessionsIdle
    /\ ShowdownIdle
    /\ EvaluatorIdle

NextEvaluator ==
    \/ RunTask
    \/ CalculateStatistics

SpecEvaluator == InitEvaluator /\ [][NextEvaluator]_vars

\* ------------------------------------------------------------------------
\* Properties of parse_action (checked under SpecParse)
\* ------------------------------------------------------------------------

Returned == pstate = "returned"

\* C1: for every well-formed action string of each supported kind,
\* parse_action returns an Action whose args key set is exactly the set the
\* kind requires.
C1_ArgsKeysExact ==
    (Returned /\ req.cls = "well") =>
        /\ out.ok
        /\ out.action = req.kind
        /\ DOMAIN out.args = required_keys(req.kind)

\* C2: for every malformed action string (a required marker is missing, a
\* coordinate is not an integer, the leading token is not a recognized
\* kind) parse_action fails and returns no Action.
C2_MalformedFails ==
    (Returned /\ req.cls \in {"missing", "nonint", "unknown"}) => ~out.ok

\* C3: round trip: the action string built from (kind, args) in the
\* documented marker syntax parses back to the same (kind, args), for every
\* kind and every valid args mapping.
C3_RoundTrip ==
    (Returned /\ req.cls = "well") =>
        /\ out.ok
        /\ out.action = req.kind
        /\ out.args = req.args

\* C8: a text whose leading token is not a recognized kind fails with an
\* error that names the unrecognized token.
C8_UnknownTokenNamed ==
    (Returned /\ req.cls = "unknown") =>
        /\ ~out.ok
        /\ contains(out.msg, req.head)

\* ------------------------------------------------------------------------
\* Properties of the agent loops (checked under Spec)
\* ------------------------------------------------------------------------

\* C4: in every run of main_loop, whatever the oracles and the browser
\* return, no more than MAX_ACTIONS iterations are begun, and so no more
\* than MAX_ACTIONS observations or actions are attempted.
C4_CyclesBounded ==
    entry = "main_loop" =>
        /\ cycles <= MAX_ACTIONS
        /\ observed <= cycles
        /\ acted <= cycles

C4_Witness ==
    /\ entry = "main_loop"
    /\ pc = "done"
    /\ cycles = MAX_ACTIONS
    /\ acted = MAX_ACTIONS

\* C5 as stated: once the decision of iteration i is the terminal one, the
\* loop ends at iteration i and no browser action is dispatched at
\* iteration i or later.
C5_NoDispatchFromTerminal ==
    terminal_iter # 0 =>
        /\ cycles = terminal_iter
        /\ terminal_dispatch = 0

\* C5 as amended: once the decision of iteration i is the terminal one, no
\* later iteration begins; no browser action is dispatched from then on,
\* except that a WebAgent decision which sets is_task_complete on an action
\* other than 'complete' has that one action dispatched at iteration i.
C5_TerminalEndsLoop ==
    terminal_iter # 0 =>
        /\ cycles = terminal_iter
        /\ pc = "loop" => ~loop_continues
        /\ pc \in {"loop", "act", "summarize", "done"}
        /\ \/ terminal_dispatch = 0
           \/ /\ entry = "WebAgent"
              /\ terminal_dispatch = 1
              /\ decision.is_task_complete
              /\ decision.action # "complete"

C5_Witness ==
    /\ entry = "WebAgent"
    /\ pc = "done"
    /\ terminal_iter # 0
    /\ terminal_iter < task_plan
    /\ terminal_dispatch = 1
    /\ result = "Task completed successfully"

\* the iteration cap of the running entry point
Cap == IF entry = "main_loop" THEN MAX_ACTIONS ELSE task_plan

\* C6 as stated: a failed action does not end the session; the loop runs on
\* until the cap is reached or a later terminal action is decided.
C6_FailureDoesNotEnd ==
    (failed_iter # 0 /\ pc = "done") =>
        \/ cycles = Cap
        \/ terminal_iter > failed_iter

\* C6 as amended: a failed action ends the session at that iteration:
\* main_loop leaves the loop for the summary with the failure written to
\* current_state, and WebAgent returns "Task execution failed"; no later
\* iteration begins.
C6_FailureEndsSession ==
    failed_iter # 0 =>
        /\ cycles = failed_iter
        /\ pc \in {"summarize", "done"}
        /\ ~raised
        /\ entry = "main_loop" => current_state = "State after failed attempt"
        /\ entry = "WebAgent" => result = "Task execution failed"

C6_Witness ==
    /\ entry = "main_loop"
    /\ pc = "done"
    /\ failed_iter # 0
    /\ failed_iter < MAX_ACTIONS
    /\ dispatched = failed_iter

\* a main_loop session has ended and no oracle answered 'finish' or failed
NeverTerminal ==
    /\ entry = "main_loop"
    /\ pc = "done"
    /\ ~planning_failed(plan)
    /\ terminal_iter = 0
    /\ ~oracle_failed

C9_PlanningFailureIsFatal ==
    plan_failed =>
        /\ pc = "done"
        /\ cycles = 0
        /\ observed = 0
        /\ acted = 0
        /\ dispatched = 0
        /\ ~raised
        /\ entry = "main_loop" =>
              summary = "Task could not be summarized because planning failed."
        /\ entry = "WebAgent" => result = "Task execution failed"

C9_Witness ==
    /\ plan_failed
    /\ pc = "done"
    /\ session = 2

ResultStrings ==
    {"Task completed successfully", "Plan execution completed",
     "Task execution failed", "not completed"}

\* C10 as stated: the caller of the entry point always receives a terminal
\* string result, and no exception crosses the entry point.
C10_AlwaysStringResult ==
    pc = "done" =>
        /\ ~raised
        /\ result \in ResultStrings

\* C10 as amended: WebAgent.execute_task always returns one of its three
\* result strings and lets no exception through; main_loop returns None
\* (its summary is printed, not returned) and lets one exception through,
\* that of the wait which follows a successful action.
C10_EntryBoundary ==
    pc = "done" =>
        /\ entry = "WebAgent" =>
              /\ ~raised
              /\ result \in ResultStrings \ {"not completed"}
        /\ entry = "main_loop" =>
              \/ ~raised /\ result = "None"
              \/ /\ raised
                 /\ failed_iter = 0
                 /\ acted = cycles
                 /\ actions_this_session = acted
                 /\ acted >= 1

C10_Witness ==
    /\ entry = "WebAgent"
    /\ pc = "done"
    /\ oracle_failed
    /\ result = "Task execution failed"
    /\ ~raised

\* ------------------------------------------------------------------------
\* C11: the history and the iterations
\* ------------------------------------------------------------------------

\* the history of the current session is the one the variables hold
HistoryValid ==
    /\ session >= 1
    /\ IF entry = "main_loop" THEN ~planning_failed(plan)
       ELSE current_task.id = session

\* entries of the history made by the loop
HistoryLen ==
    IF entry = "main_loop" THEN Len(actions_done)
    ELSE Len(current_task.steps_taken) - 1

\* the loop is about to ask for the decision of its next iteration
AtDeciding ==
    IF entry = "main_loop" THEN pc = "loop" ELSE pc = "decide"

\* iterations begun before the one that is about to decide
IterationsBefore ==
    IF entry = "main_loop" THEN cycles ELSE cycles - 1

Exited == entry = "main_loop" /\ exit_code # -1 /\ session = 1

\* C12: the command-line run exits with status 0 exactly when its session
\* ended by terminal completion, and with a non-zero status when it ended by
\* exhaustion of the iteration cap or by a planning failure.
C12_ExitCodeTellsOutcome ==
    Exited =>
        /\ exit_code = 0 <=> terminal_iter # 0
        /\ plan_failed => exit_code # 0
        /\ (terminal_iter = 0 /\ Len(actions_done) >= MAX_ACTIONS)
              => exit_code # 0

\* ------------------------------------------------------------------------
\* C13-C16: the parser (checked under SpecParse)
\* ------------------------------------------------------------------------

\* C13: parse_action determines the kind by the exact recognized name
\* followed by "(": the text of every returned Action starts with the name
\* of its kind and "(", and a text whose leading token only starts with a
\* recognized name (clicked(...), typewriter(...)) is rejected as an
\* unrecognized token.
C13_ExactNameMatch ==
    Returned =>
        /\ out.ok => startswith(req.text, kind_name(out.action) \o <<"(">>)
        /\ (/\ req.cls = "unknown"
            /\ \E k \in Kinds : startswith(req.head, kind_name(k)))
              => /\ ~out.ok
                 /\ out.exc = "ValueError"
                 /\ startswith(out.msg, msg_invalid)

\* C14: left_double and right_single extract the coordinates as click does:
\* each of the three kinds accepts the point as point='(x,y)' and as
\* start_box='(x,y)' and yields the same x and y for both spellings.
C14_PointSpellings ==
    (/\ Returned
     /\ req.cls = "well"
     /\ req.kind \in PointKinds
     /\ req.m1 \in {"point", "start_box"})
        => /\ out.ok
           /\ out.args.x = req.args.x
           /\ out.args.y = req.args.y

\* the string field of a request of a kind that has exactly one
StringField(r) ==
    CASE r.kind \in {"type", "finished"} -> "content"
      [] r.kind = "hotkey"               -> "key"
      [] r.kind = "goto_url"             -> "url"

\* C15: a string sub-field is read from its marker up to the next
\* unescaped single quote: a content that holds an escaped quote is
\* returned in full (as written, or with the escape resolved), not cut at
\* the escaped quote.
C15_EscapedQuoteKept ==
    (/\ Returned
     /\ req.cls = "well"
     /\ req.kind \in {"type", "finished", "hotkey", "goto_url"})
        => LET f == StringField(req) IN
           /\ out.ok
           /\ out.args[f] \in {req.args[f], escape(req.args[f])}

\* the names of the fields a kind reads
FieldNames(kind) ==
    LET tags == first_markers(kind) \cup
                (IF second_marker(kind) = "none" THEN {}
                 ELSE {second_marker(kind)})
    IN  {SubSeq(marker_text(t), 1, Len(marker_text(t)) - 2) : t \in tags}

\* C16 as stated: when an integer field is not a base-10 integer or a
\* required marker is missing, the error of parse_action names the
\* offending field and carries the raw input text.
C16_ErrorNamesField ==
    (Returned /\ req.cls \in {"missing", "nonint"}) =>
        /\ ~out.ok
        /\ \E n \in FieldNames(req.kind) : contains(out.msg, n)
        /\ contains(out.msg, req.text)

\* the branch of the kind finds no marker it reads in the text
MarkerNotRead(r) ==
    \/ r.cls = "missing"
    \/ r.kind \in {"left_double", "right_single"} /\ r.m1 = "point"

\* the coordinate of a request that is not an integer literal
BadLiteral(r) ==
    CASE r.kind \in PointKinds -> r.args.x
      [] r.kind = "scroll"     -> r.args.y
      [] r.kind = "drag"       -> r.args.end_x

\* C16 amended: in both cases parse_action fails with the built-in
\* exception of the failing expression, which neither names the field nor
\* carries the raw input text: IndexError "list index out of range" when
\* the marker the branch reads is not in the text, ValueError quoting only
\* the offending literal when a coordinate is not an integer.
C16_BuiltinErrors ==
    (Returned /\ req.cls \in {"missing", "nonint"}) =>
        /\ ~out.ok
        /\ ~contains(out.msg, req.text)
        /\ IF MarkerNotRead(req)
           THEN out.exc = "IndexError" /\ out.msg = msg_index
           ELSE /\ out.exc = "ValueError"
                /\ out.msg = msg_int \o repr(BadLiteral(req))

\* a click whose x is "12x" has failed
C16_Witness ==
    /\ Returned
    /\ req.cls = "nonint"
    /\ req.kind = "click"
    /\ req.args.x = <<"1","2","x">>
    /\ out.exc = "ValueError"

\* ------------------------------------------------------------------------
\* C17-C20: the phases of an iteration (checked under Spec)
\* ------------------------------------------------------------------------

\* C17: a decision whose action text contains "finished" in any letter case
\* is the terminal one: the loop moves to its end with no action dispatched.
C17_MarkerIsTerminal ==
    marker =>
        /\ pc \in {"summarize", "done"}
        /\ terminal_iter = cycles

\* C17 amended: main_loop ends on a decision whose action is exactly
\* 'finish'; a decision whose action text only contains "finished" in some
\* letter case is not terminal, and its iteration goes on to the screenshot
\* analysis and to the execution of an action.
C17_ExactFinishOnly ==
    /\ marker => pc \in {"observe", "act"}
    /\ pc = "observe" => next_task_directive.action # "finish"
    /\ (pc = "act" /\ action_to_execute.cls = "NextTaskResponse")
          => action_to_execute.action # "finish"

\* the decision was "FINISHED" and a click refined from the screenshot is
\* about to be executed
C17_Witness ==
    /\ entry = "main_loop"
    /\ marker
    /\ pc = "act"
    /\ action_to_execute = Response("ImageAnalysisResponse", "click",
                                    GoodParams)

C19_ScreenshotFailureFatal ==
    shot_failed =>
        /\ pc \in {"summarize", "done"}
        /\ entry = "WebAgent" => result = "Task execution failed"
        /\ action_to_execute = None

\* C19 amended: a screenshot that raises ends a WebAgent session with the
\* failure result, without a decision or an action in that iteration;
\* main_loop goes on to execute the directive of its decision call in the
\* same iteration.
C19_FatalOnlyInWebAgent ==
    shot_failed =>
        IF entry = "WebAgent"
        THEN /\ pc = "done"
             /\ result = "Task execution failed"
             /\ ~raised
             /\ decided = acted
             /\ acted = IF cycles = 0 THEN 0 ELSE cycles - 1
        ELSE /\ pc = "act"
             /\ action_to_execute.cls = "NextTaskResponse"
             /\ needs_screenshot(action_to_execute.action)

\* the screenshot raised and main_loop is about to click as the directive
\* says
C19_Witness ==
    /\ entry = "main_loop"
    /\ shot_failed
    /\ pc = "act"
    /\ action_to_execute = Response("NextTaskResponse", "click", GoodParams)

\* C20: when the decision call fails, the session aborts with an error
\* that can be told from completion: the failure is not recorded in the
\* history as a 'finish' action.
C20_OracleFailureNotFinish ==
    oracle_failed =>
        /\ pc \in {"summarize", "done"}
        /\ IF entry = "main_loop"
           THEN \A i \in 1..Len(actions_done) : actions_done[i] # "finish"
           ELSE result = "Task execution failed"

\* ------------------------------------------------------------------------
\* C21: the history only grows
\* ------------------------------------------------------------------------

\* s is a prefix of t
IsPrefix(s, t) == Len(s) <= Len(t) /\ SubSeq(t, 1, Len(s)) = s

\* C21: within one session the history is append-only: every step of the
\* loop leaves the earlier history (actions_done, the steps_taken of the
\* Task) as a prefix of the new one; no entry is changed or removed.
C21_HistoryAppendOnly ==
    [][(session >= 1 /\ session' = session) =>
          /\ IsPrefix(actions_done, actions_done')
          /\ IsPrefix(current_task.steps_taken, current_task'.steps_taken)]_vars

\* two steps of a plan have been recorded after the initial text
C21_Witness ==
    /\ entry = "WebAgent"
    /\ pc = "steps"
    /\ current_task.steps_taken = <<0, 1, 2>>

\* ------------------------------------------------------------------------
\* C22: termination (checked under SpecFair)
\* ------------------------------------------------------------------------

\* a session has begun and has not ended
Running == pc \notin {"idle", "done"}

\* the session ended in one of the ways the specification lists: a terminal
\* action, the iteration cap (the end of the plan in WebAgent), a planning
\* failure
EndedAsListed ==
    IF entry = "main_loop"
    THEN \/ planning_failed(plan)
         \/ \E i \in 1..Len(actions_done) : actions_done[i] = "finish"
         \/ Len(actions_done) >= MAX_ACTIONS
    ELSE \/ plan_failed
         \/ terminal_iter # 0
         \/ result = "Plan execution completed"

\* C22 as stated: every session that has begun ends, and it ends by a
\* terminal action, by exhaustion of the cap or by a planning failure, with
\* a final result.
C22_EndsAsListed ==
    /\ Running ~> pc = "done"
    /\ [](session >= 1 /\ pc = "done" => EndedAsListed /\ ~raised)

\* C22 amended: every session that has begun ends; besides the three ways
\* listed it ends when an action fails, when (WebAgent) a screenshot or a
\* decision call fails, and when wait_for_timeout raises in main_loop, in
\* which case main_loop gives no result but the exception.
C22_SessionsTerminate ==
    /\ Running ~> pc = "done"
    /\ [](session >= 1 /\ pc = "done" =>
            \/ EndedAsListed /\ ~raised
            \/ failed_iter # 0 /\ ~raised
            \/ entry = "WebAgent" /\ result = "Task execution failed"
            \/ entry = "main_loop" /\ raised /\ result = "raised")

\* main_loop has ended after the action of its first iteration failed
C22_Witness ==
    /\ entry = "main_loop"
    /\ pc = "done"
    /\ failed_iter = 1
    /\ actions_done = <<>>
    /\ summary = "summary"

\* ------------------------------------------------------------------------
\* C23, C24: sessions one after the other (checked under Spec)
\* ------------------------------------------------------------------------

\* C23: a session's loop begins with an empty history and a fresh state,
\* whatever the sessions before it left behind, and no entry of its history
\* comes from an earlier session: the history never holds more entries than
\* iterations of this session, so neither the completion check nor the
\* iteration count sees an earlier session.
C23_SessionsIndependent ==
    IF entry = "main_loop"
    THEN /\ (pc = "loop" /\ cycles = 0) =>
              /\ actions_done = <<>>
              /\ current_state = "Plan generated."
              /\ actions_this_session = 0
         /\ pc \in {"loop", "observe", "act", "summarize"} =>
              /\ Len(actions_done) <= cycles
              /\ actions_this_session <= cycles
    ELSE /\ pc \in {"open", "steps", "decide", "act"} =>
              /\ current_task.id = session
              /\ Len(current_task.steps_taken) <= cycles + 1
              /\ step_num = cycles
         /\ (pc \in {"open", "steps"} /\ cycles = 0) =>
              /\ current_task.steps_taken = <<0>>
              /\ ~current_task.saved

\* the loop of a second call of main_loop is about to begin
C23_Witness ==
    /\ entry = "main_loop"
    /\ session = 2
    /\ pc = "loop"
    /\ cycles = 0
    /\ actions_done = <<>>

\* C24: in websight.py, over any sequence of main_loop calls,
\* len(actions_done) <= MAX_ACTIONS; an entry is appended only in an
\* iteration that began with fewer than MAX_ACTIONS entries, and at most
\* one entry is appended per iteration.
C24_HistoryWithinCap ==
    /\ [](entry = "main_loop" =>
            /\ Len(actions_done) <= MAX_ACTIONS
            /\ pc \in {"observe", "act"} =>
                  Len(actions_done) < MAX_ACTIONS)
    /\ [][(entry = "main_loop" /\ Len(actions_done') > Len(actions_done)) =>
            /\ Len(actions_done') = Len(actions_done) + 1
            /\ Len(actions_done) < MAX_ACTIONS
            /\ \/ pc = "loop" /\ cycles' = cycles + 1
               \/ pc = "act" /\ cycles' = cycles]_vars

\* the history is full after the tenth action of a call of main_loop
C24_Witness ==
    /\ entry = "main_loop"
    /\ Len(actions_done) = MAX_ACTIONS
    /\ actions_this_session = MAX_ACTIONS
    /\ pc = "loop"

\* ------------------------------------------------------------------------
\* C25: execute_browser_action (checked under SpecExec)
\* ------------------------------------------------------------------------

BrowserPrimitives == {"goto_url", "click", "type", "scroll", "wait"}

\* C25: execute_browser_action never raises: an exception of the browser
\* call or of an int() conversion becomes the return value False; and it
\* returns True only if one browser primitive was invoked and returned, or
\* the action type is 'finish' and no primitive was invoked.
C25_NeverRaises ==
    Returned =>
        /\ ~out.exc
        /\ (/\ req.details.cls \in {"NextTaskResponse",
                                      "ImageAnalysisResponse"}
            /\ try_browser_action(req.details, req.ok).exc) => ~out.success
        /\ out.success =>
              \/ out.prim \in BrowserPrimitives /\ req.ok
              \/ req.details.action = "finish" /\ out.prim = "none"

\* a click whose x is not an integer has returned False
C25_Witness ==
    /\ Returned
    /\ req.details = Response("NextTaskResponse", "click", BadIntParams)
    /\ out.prim = "none"
    /\ ~out.success
    /\ ~out.exc

\* ------------------------------------------------------------------------
\* C26: vlm_call (checked under SpecVlm)
\* ------------------------------------------------------------------------

\* the answer lacks the 'Thought: ' marker or the 'Action: ' marker
LacksMarker == ~contains(req.text, t_thought) \/ ~contains(req.text, t_action)

NoDuplicates(s) == \A i, j \in 1..Len(s) : s[i] = s[j] => i = j

\* C27 as stated: over any sequence of runs on one results directory, an
\* example whose id is in the stored results is never sent to the model
\* again, the stored results hold at most one entry per id, the results
\* file is rewritten after every successfully evaluated example, and an
\* example whose evaluation raised is left unrecorded.
C27_ResumableAsStated ==
    /\ [](/\ NoDuplicates(results_file)
          /\ last_example.what \in {"saved", "save_raised"} =>
                results_file = results
          /\ last_example.what = "raised" =>
                last_example.id \notin Range(results))
    /\ [][(sent' \ sent) \cap Range(results_file) = {}]_vars

\* C27: in a run whose load of the stored results returned, an example
\* whose id is in the stored results is never sent to the model; the stored
\* results hold at most one entry per id; whenever save_results returned
\* for an example the file holds exactly the in-memory results, that
\* example last; an example for which the model call or the scoring raised
\* is not recorded by that run and is not in the file of a run that loaded
\* it; and a run that loaded the file starts from its entries and looks
\* only at examples outside it.
C27_ResumableWhenLoadedAndSaved ==
    /\ [](/\ NoDuplicates(results_file)
          /\ last_example.what = "saved" =>
                /\ results_file = results
                /\ results[Len(results)] = last_example.id
          /\ last_example.what = "raised" =>
                /\ last_example.id \notin Range(results)
                /\ loaded => last_example.id \notin Range(results_file)
          /\ (spc = "loop" /\ loaded) =>
                /\ existing_results \subseteq Range(results)
                /\ Range(remaining_examples) \cap existing_results = {})
    /\ [][loaded' => (sent' \ sent) \cap Range(results_file) = {}]_vars

\* a second run that loaded a stored entry, skipped it, and stored an
\* example next to it
C27_Witness ==
    /\ runs = 2
    /\ loaded
    /\ existing_results # {}
    /\ last_example.what = "saved"
    /\ last_example.id \notin existing_results
    /\ Len(results_file) = Cardinality(existing_results) + 1

\* ------------------------------------------------------------------------
\* WebsightEvaluator (checked under SpecEvaluator)
\* ------------------------------------------------------------------------

Ordered(correct, success, total) == correct <= success /\ success <= total

\* C28: a task whose execution failed (non-zero return code, timeout or
\* exception) is never marked correct and gets evaluation score 0, so the
\* statistics satisfy correct_answers <= successful_executions <=
\* total_tasks, overall and for every website group.
C28_FailedNeverCorrect ==
    /\ \A i \in 1..Len(ev_results) :
          ~ev_results[i].success =>
              /\ ~ev_results[i].is_correct
              /\ ev_results[i].evaluation_score = 0
    /\ Ordered(stats.correct_answers, stats.successful_executions,
               stats.total_tasks)
    /\ \A w \in DOMAIN stats.by_website :
          Ordered(stats.by_website[w].correct, stats.by_website[w].success,
                  stats.by_website[w].total)

\* statistics over a failed, a successful but incorrect and a correct task
C28_Witness ==
    /\ stats.total_tasks = 3
    /\ stats.successful_executions = 2
    /\ stats.correct_answers = 1
    /\ \E i \in 1..Len(ev_results) :
          ev_results[i].error_message = "Task execution timed out"
    /\ \E w \in DOMAIN stats.by_website :
          stats.by_website[w].correct < stats.by_website[w].success

\* ------------------------------------------------------------------------
\* The two parsers (checked under SpecParse)
\* ------------------------------------------------------------------------

\* C29: the parse_action functions of communicators/vlm.py and
\* communicators/uitars_finetuned.py are behaviourally identical: for every
\* (action, reasoning) input both return the same Action or both fail, and
\* then with the same exception.
C29_SameParser ==
    Returned => out = finetuned_parse_action(req.text, reasoning)

\* both parsers returned the click read from a point=' marker
C29_Witness ==
    /\ Returned
    /\ req.kind = "click"
    /\ req.m1 = "point"
    /\ out.ok
    /\ finetuned_parse_action(req.text, reasoning).ok
    /\ finetuned_parse_action(req.text, reasoning).args.x = req.args.x

\* C30: for click and scroll, when the action text contains both a point='
\* marker and a start_box=' marker, parse_action takes the coordinates from
\* point=' and ignores start_box=' (whatever it holds); start_box=' is read
\* only when point=' does not occur anywhere in the text.
C30_PointBeforeStartBox ==
    /\ (Returned /\ req.cls = "both") =>
          /\ contains(req.text, m_point) /\ contains(req.text, m_start_box)
          /\ out.ok
          /\ out.action = req.kind
          /\ out.args.x = req.args.x
          /\ out.args.y = req.args.y
    /\ (Returned /\ req.cls = "well" /\ req.kind \in {"click", "scroll"}
          /\ req.m1 = "start_box") =>
          /\ ~contains(req.text, m_point)
          /\ out.ok
          /\ out.args.x = req.args.x
          /\ out.args.y = req.args.y

\* a click whose start_box=' comes first and holds no integers, parsed from
\* its point=' marker
C30_Witness ==
    /\ Returned
    /\ req.cls = "both"
    /\ req.kind = "click"
    /\ req.m1 = "start_box"
    /\ req.args.box = <<"(","a",",","b",")">>
    /\ out.ok
    /\ out.args.x = req.args.x
====
